---- MODULE Spec2Model ----
(***************************************************************************)
(* Model of the Pico W dashboard server (src/main.py): the startup         *)
(* routine main(), the accept loop of start_server(), the passcode gate    *)
(* verify_passcode(), the pulse handlers handle_boot()/handle_reboot()     *)
(* and the reachability probe handle_status().                             *)
(*                                                                         *)
(* Text is a sequence of one-character strings; received bytes are a       *)
(* sequence of byte names (an ASCII byte is named by its character, a      *)
(* byte >= 0x80 by "xHH").  An optional value is <<>> (None) or <<v>>.     *)
(***************************************************************************)
EXTENDS Integers, Sequences, FiniteSets, TLC

\* ------------------------------------------------------------------ bounds
\* Saturation point of the counter of consecutive failed connections.
MaxFailures == 3

\* ------------------------------------------------------- program constants
BOOT_PIN == 8
RUN_PIN == 9
WIFI_TIMEOUT == 10
SLEEPS_PER_SECOND == 2
SSH_PORT == 22

Pins == {BOOT_PIN, RUN_PIN}

None == <<>>
Some(v) == <<v>>

\* ------------------------------------------------------------ str methods
\* s.startswith(p)
StartsWith(s, p) == Len(p) <= Len(s) /\ SubSeq(s, 1, Len(p)) = p

\* s.find(sub) + 1: index of the first occurrence of sub in s, 0 when absent.
\* The string is a value the method receives: it is evaluated once.
Find(string, sub) ==
    LET First(s) ==
            LET hits == {i \in 1..(Len(s) + 1 - Len(sub)) :
                            SubSeq(s, i, i + Len(sub) - 1) = sub}
            IN  IF hits = {} THEN 0 ELSE CHOOSE i \in hits : \A j \in hits : i <= j
    IN  CHOOSE first \in {First(s) : s \in {string}} : TRUE

\* sub in s
Contains(s, sub) == Find(s, sub) # 0

\* s.split(sep): the list of the parts of s between occurrences of sep
RECURSIVE Split(_, _)
Split(string, sep) ==
    LET Parts(s, i) ==
            IF i = 0 THEN <<s>>
            ELSE <<SubSeq(s, 1, i - 1)>> \o Split(SubSeq(s, i + Len(sep), Len(s)), sep)
    IN  CHOOSE parts \in {Parts(s, Find(s, sep)) : s \in {string}} : TRUE

\* s.split(sep, 1)
SplitOnce(s, sep) ==
    LET i == Find(s, sep)
    IN  IF i = 0 THEN <<s>>
        ELSE <<SubSeq(s, 1, i - 1), SubSeq(s, i + Len(sep), Len(s))>>

Whitespace == {" ", "\t", "\r", "\n"}

\* s.strip()
RECURSIVE LStrip(_)
LStrip(s) == IF s # <<>> /\ Head(s) \in Whitespace THEN LStrip(Tail(s)) ELSE s

RECURSIVE RStrip(_)
RStrip(s) ==
    IF s # <<>> /\ s[Len(s)] \in Whitespace THEN RStrip(SubSeq(s, 1, Len(s) - 1)) ELSE s

Strip(s) == RStrip(LStrip(s))

\* bytes.decode("utf-8"): <<TRUE, text>>, or <<FALSE, <<>>>> for UnicodeError.
\* Bytes 0xC2..0xDF lead a two-byte sequence and need a continuation byte
\* 0x80..0xBF; 0xFE and 0xFF never occur in UTF-8.
Lead2 == {"xC3"}
Cont == {"xA9"}
NeverUtf8 == {"xFF", "xFE"}
TwoByteChar(lead, cont) == "e'"

Utf8Valid(b) ==
    \A i \in 1..Len(b) :
        /\ b[i] \notin NeverUtf8
        /\ b[i] \in Lead2 => (i < Len(b) /\ b[i + 1] \in Cont)
        /\ b[i] \in Cont => (i > 1 /\ b[i - 1] \in Lead2)

IsChar(c) == c \notin Cont

Utf8Decode(b) ==
    IF Utf8Valid(b)
    THEN <<TRUE, SelectSeq([i \in 1..Len(b) |->
                               IF b[i] \in Lead2 THEN TwoByteChar(b[i], b[i + 1])
                               ELSE b[i]],
                           IsChar)>>
    ELSE <<FALSE, <<>>>>

\* ------------------------------------------------------------ text literals
CRLF == <<"\r", "\n">>
SP == <<" ">>
EQ == <<"=">>
HASH == <<"#">>
QPASSCODE == <<"?", "p", "a", "s", "s", "c", "o", "d", "e", "=">>
GET_BOOT == <<"G", "E", "T", " ", "/", "b", "o", "o", "t">>
GET_REBOOT == <<"G", "E", "T", " ", "/", "r", "e", "b", "o", "o", "t">>
GET_STATUS == <<"G", "E", "T", " ", "/", "s", "t", "a", "t", "u", "s">>
K_IP == <<"D", "R", "I", "V", "E", "R", "I", "O", "_", "I", "P">>
K_USER == <<"D", "R", "I", "V", "E", "R", "I", "O", "_", "U", "S", "E", "R">>
K_PASS == <<"D", "R", "I", "V", "E", "R", "I", "O", "_", "P", "A", "S", "S">>
K_PASSCODE == <<"P", "A", "S", "S", "C", "O", "D", "E">>

\* ------------------------------------------------- driverio_config.txt
\* The file is [exists, lines]; a missing or unreadable file makes open() raise.
ConfigEmpty == [ip |-> None, user |-> None, pass |-> None, passcode |-> None]

\* One iteration of the loop over the file's lines.
ConfigLine(config, rawline) ==
    LET line == Strip(rawline)
    IN  IF line # <<>> /\ ~StartsWith(line, HASH) /\ Contains(line, EQ)
        THEN LET kv == SplitOnce(line, EQ)
                 key == kv[1]
                 value == kv[2]
             IN  IF key = K_IP THEN [config EXCEPT !.ip = Some(value)]
                 ELSE IF key = K_USER THEN [config EXCEPT !.user = Some(value)]
                 ELSE IF key = K_PASS THEN [config EXCEPT !.pass = Some(value)]
                 ELSE IF key = K_PASSCODE THEN [config EXCEPT !.passcode = Some(value)]
                 ELSE config
        ELSE config

RECURSIVE ConfigLines(_, _)
ConfigLines(config, lines) ==
    IF lines = <<>> THEN config
    ELSE ConfigLines(ConfigLine(config, Head(lines)), Tail(lines))

\* Contents the board-control file can have.
IpA == <<"1", "0", ".", "0", ".", "0", ".", "2">>
NL == <<"\n">>

Files ==
    { [exists |-> FALSE, lines |-> <<>>],
      [exists |-> TRUE, lines |-> << K_IP \o EQ \o IpA \o NL,
                                     K_PASSCODE \o EQ \o <<"1", "2">> \o NL >>],
      [exists |-> TRUE, lines |-> << <<"#", " ", "b", "o", "a", "r", "d">> \o NL,
                                     SP \o K_PASSCODE \o EQ \o <<"a", "B">> \o SP \o NL >>],
      [exists |-> TRUE, lines |-> << K_IP \o EQ \o IpA \o NL >>],
      [exists |-> TRUE, lines |-> << K_PASSCODE \o EQ \o NL, K_IP \o EQ \o NL >>] }

\* lines 52-81: the dictionary read from a file; a file that cannot be opened
\* gives the empty one.
ReadLines(f) ==
    IF f.exists THEN ConfigLines(ConfigEmpty, f.lines) ELSE ConfigEmpty

\* What reading gives for each content of the file.
ConfigRead == {<<f, ReadLines(f)>> : f \in Files}

read_driverio_config(f) == (CHOOSE row \in ConfigRead : row[1] = f)[2]

\* config.get(key, '') of an optional entry
GetOr(opt, default) == IF opt = None THEN default ELSE opt[1]

\* ------------------------------------------------------- passcode gate
\* The mutants of verify_passcode: a case-folding comparison, and a gate that
\* lets a request without a passcode parameter through.
Lower(c) == IF c = "A" THEN "a" ELSE IF c = "B" THEN "b" ELSE c
LowerStr(s) == [i \in 1..Len(s) |-> Lower(s[i])]

verify_passcode_casefold(provided_passcode, f) ==
    LET correct_passcode == GetOr(read_driverio_config(f).passcode, <<>>)
    IN  IF correct_passcode = <<>> THEN TRUE
        ELSE provided_passcode # None
             /\ LowerStr(provided_passcode[1]) = LowerStr(correct_passcode)

verify_passcode_missing_ok(provided_passcode, f) ==
    LET correct_passcode == GetOr(read_driverio_config(f).passcode, <<>>)
    IN  IF correct_passcode = <<>> THEN TRUE
        ELSE provided_passcode = None \/ provided_passcode = Some(correct_passcode)

\* A variant of verify_passcode: without a configured passcode nobody is let
\* through.
verify_passcode_fail_closed(provided_passcode, f) ==
    LET correct_passcode == GetOr(read_driverio_config(f).passcode, <<>>)
    IN  correct_passcode # <<>> /\ provided_passcode = Some(correct_passcode)

verify_passcode(provided_passcode, f) ==
    LET correct_passcode == GetOr(read_driverio_config(f).passcode, <<>>)
    IN  IF correct_passcode = <<>> THEN TRUE
        ELSE provided_passcode = Some(correct_passcode)

\* ------------------------------------------------------ request parsing
\* request.split("\r\n")[0]
RequestLine(request) == Split(request, CRLF)[1]

\* lines 487-492: the text after the first '?passcode=' up to the next space
ExtractPasscode(request_line) ==
    IF Contains(request_line, QPASSCODE)
    THEN Some(Split(Split(request_line, QPASSCODE)[2], SP)[1])
    ELSE None

\* The route a path alone names: the prefix after the verb of each literal.
PathClass(path) ==
    IF StartsWith(path, SubSeq(GET_BOOT, 5, Len(GET_BOOT))) THEN "boot"
    ELSE IF StartsWith(path, SubSeq(GET_REBOOT, 5, Len(GET_REBOOT))) THEN "reboot"
    ELSE IF StartsWith(path, SubSeq(GET_STATUS, 5, Len(GET_STATUS))) THEN "status"
    ELSE "dashboard"

\* The words of a line: line.split(' ')
Words(line) == Split(line, SP)

\* The second word of a line, empty when there is none
PathToken(line) == IF Len(Words(line)) >= 2 THEN Words(line)[2] ELSE <<>>

\* The mutant of Route: the verb is not looked at.
RouteAnyVerb(request_line) == PathClass(PathToken(request_line))

\* A variant of Route: the path has to be the route's name exactly, with the
\* query cut off.
RouteExact(request_line) ==
    IF Words(request_line)[1] # <<"G", "E", "T">> THEN "dashboard"
    ELSE LET path == SplitOnce(PathToken(request_line), <<"?">>)[1]
         IN  IF path = SubSeq(GET_BOOT, 5, Len(GET_BOOT)) THEN "boot"
             ELSE IF path = SubSeq(GET_REBOOT, 5, Len(GET_REBOOT)) THEN "reboot"
             ELSE IF path = SubSeq(GET_STATUS, 5, Len(GET_STATUS)) THEN "status"
             ELSE "dashboard"

\* lines 494-516: the if/elif chain over request_line.startswith(...)
Route(request_line) ==
    IF StartsWith(request_line, GET_BOOT) THEN "boot"
    ELSE IF StartsWith(request_line, GET_REBOOT) THEN "reboot"
    ELSE IF StartsWith(request_line, GET_STATUS) THEN "status"
    ELSE "dashboard"

\* ---------------------------------------------------------- rendering
\* get_response_page(action): the page is identified by its action_text.
get_response_page(action) ==
    IF action = "boot" THEN "Force Bootloader Recovery Mode"
    ELSE IF action = "reboot" THEN "Hardware Reset (RUN)"
    ELSE IF action = "status" THEN "Status Check - Driver IO is ONLINE"
    ELSE IF action = "status_offline" THEN "Status Check - Driver IO is OFFLINE"
    ELSE IF action = "unauthorized" THEN "Invalid Passcode"
    ELSE "Unknown Action"

\* get_html_page(): the dashboard page with its three controls.
get_html_page == "Dashboard"

\* line 521: the text put before the page, "HTTP/1.1 200 OK\r\nContent-Type:
\* text/html\r\nConnection: close\r\n\r\n"
HTTP_HEAD ==
    <<"H", "T", "T", "P", "/", "1", ".", "1", " ", "2", "0", "0", " ", "O", "K">> \o CRLF
    \o <<"C", "o", "n", "t", "e", "n", "t", "-", "T", "y", "p", "e", ":", " ", "t", "e", "x", "t", "/", "h", "t", "m", "l">> \o CRLF
    \o <<"C", "o", "n", "n", "e", "c", "t", "i", "o", "n", ":", " ", "c", "l", "o", "s", "e">> \o CRLF
    \o CRLF

\* A variant of HttpResponse: the denial is sent with status 401.
HttpResponseWithDenialStatus(page) ==
    [head |-> IF page = "Invalid Passcode"
              THEN <<"H", "T", "T", "P", "/", "1", ".", "1", " ", "4", "0", "1", " ", "U", "n", "a", "u", "t", "h", "o", "r", "i", "z", "e", "d">> \o CRLF \o SubSeq(HTTP_HEAD, 18, Len(HTTP_HEAD))
              ELSE HTTP_HEAD,
     body |-> page]

\* lines 521-522: what is written to the client, head and page
HttpResponse(page) == [head |-> HTTP_HEAD, body |-> page]


\* -------------------------------------------------------------- inputs
\* The contents the file has when the board is powered: complete, or missing.
BootFiles ==
    {f \in Files :
        \/ ~f.exists
        \/ (GetOr(read_driverio_config(f).ip, <<>>) # <<>>
            /\ GetOr(read_driverio_config(f).passcode, <<>>) # <<>>)}

\* Contents wifi_config.txt can have.
SSID_EQ == <<"S", "S", "I", "D", "=">>
PASSWORD_EQ == <<"P", "A", "S", "S", "W", "O", "R", "D", "=">>
NetName == <<"n", "e", "t">>
NetSecret == <<"p", "w">>

WifiFiles ==
    { [exists |-> FALSE, lines |-> <<>>],
      [exists |-> TRUE, lines |-> << SSID_EQ \o NetName \o NL, PASSWORD_EQ \o NetSecret \o NL >>],
      [exists |-> TRUE, lines |-> << SP \o SSID_EQ \o NetName \o CRLF,
                                     <<"#">> \o NL, PASSWORD_EQ \o NetSecret >>],
      [exists |-> TRUE, lines |-> << SSID_EQ \o NetName \o NL >>],
      [exists |-> TRUE, lines |-> << PASSWORD_EQ \o NetSecret \o NL >>],
      [exists |-> TRUE, lines |-> << SSID_EQ \o NetName \o NL, PASSWORD_EQ \o NL >>],
      [exists |-> TRUE, lines |-> << SSID_EQ \o NL, PASSWORD_EQ \o NetSecret \o NL >>] }

\* The address the interface reports once joined: wlan.ifconfig()[0]
OwnIp == <<"1", "0", ".", "0", ".", "0", ".", "9">>

\* Bytes a client can send: a verb, a target (path and query) and the rest of
\* an HTTP request, and byte strings that are no HTTP request.
Verbs == { <<"G", "E", "T">>, <<"P", "O", "S", "T">> }
Paths == { <<"/">>, <<"/", "b", "o", "o", "t">>, <<"/", "r", "e", "b", "o", "o", "t">>, <<"/", "s", "t", "a", "t", "u", "s">>, <<"/", "b", "o", "o", "t", "x", "y", "z">>, <<"/", "x">> }
Tokens == { <<"1", "2">>, <<"1">>, <<"a", "B">>, <<"a", "b">>, <<>> }
Queries ==
    {<<>>}
    \cup {QPASSCODE \o t : t \in Tokens}
    \cup {<<"?", "x", "=", "1", "&">> \o Tail(QPASSCODE) \o <<"1", "2">>, QPASSCODE \o <<"1", "2">> \o <<"&", "x", "=", "1">>}
Rests == { <<" ", "H", "T", "T", "P", "/", "1", ".", "1", "\r", "\n", "H", "o", "s", "t", ":", " ", "h", "\r", "\n", "\r", "\n">>, <<>> }

Garbage ==
    { <<>>, <<"G", "E", "T">>, <<"x00", "x01", "x02">>, <<"xC3", "xA9">>,
      <<"xFF", "xFE">>, GET_BOOT \o <<"xFF">>, <<"xC3">> }

\* Request lines whose path goes on after the name of a route.
Longer ==
    { GET_STATUS \o <<"/", "e", "x", "t", "r", "a">>,
      GET_REBOOT \o <<"n", "o", "w">> \o QPASSCODE \o <<"1", "2">>,
      <<"P", "O", "S", "T">> \o SubSeq(GET_STATUS, 4, Len(GET_STATUS)) \o <<"/", "e", "x", "t", "r", "a">> }

Requests ==
    {v \o SP \o p \o q \o r : v \in Verbs, p \in Paths, q \in Queries, r \in Rests}
    \cup Garbage \cup Longer


\* --------------------------------------------------------------- state
VARIABLES
    pc,               \* the statement the single thread executes next
    server_socket,    \* "none", "created" or "listening"
    ssid,             \* main's local, None before parse_wifi_config returned
    password,         \* main's local, None before parse_wifi_config returned
    wlan_connected,   \* what wlan.isconnected() answers
    waited,           \* the half-second sleeps of connect_wifi's loop so far
    ip_address,       \* what connect_wifi returned, None before and on timeout
    client,           \* "unbound", "open" or "closed"
    open_clients,     \* the accepted connections not closed yet
    boot_file,        \* driverio_config.txt as it was when main started
    file,             \* driverio_config.txt on the flash
    raw,              \* the bytes recv returned, None before
    request,          \* the decoded request, None before
    passcode,         \* the passcode local of the loop body
    route,            \* the branch of the if/elif chain taken, "none" before
    gate,             \* what verify_passcode returned: "none", "granted" or "denied"
    correct_passcode, \* the configured passcode verify_passcode read
    driverio_ip,      \* the address handle_status read, None before
    test_sock,        \* the probe's socket: "none", "open" or "closed"
    target,           \* the address connect_ex was called with, None before
    result,           \* the probe's outcome: "none", "ok", "refused", "raised"
    response,         \* the page chosen, "none" before
    sent,             \* what sendall wrote to the client, None before
    e,                \* the exception the loop body caught, "none" without
    pin,              \* the level each output line drives
    pinMode,          \* "in" until Pin(id, Pin.OUT) is constructed
    pinLog,           \* the levels written since the last accept
    nFailed           \* consecutive iterations that ended in the handler

startup == <<ssid, password, wlan_connected, waited, ip_address>>
conn == <<raw, request, passcode, route, gate, correct_passcode>>
probe == <<driverio_ip, test_sock, target, result>>
gpio == <<pin, pinMode, pinLog>>
vars == <<pc, server_socket, startup, boot_file, client, open_clients, file, conn, probe,
          response, sent, e, gpio, nFailed>>

Init ==
    /\ pc = "main"
    /\ server_socket = "none"
    /\ ssid = None /\ password = None
    /\ wlan_connected \in BOOLEAN
    /\ waited = 0
    /\ ip_address = None
    /\ client = "unbound"
    /\ open_clients = 0
    /\ file \in BootFiles
    /\ boot_file = file
    /\ raw = None /\ request = None /\ passcode = None
    /\ route = "none" /\ gate = "none" /\ correct_passcode = None
    /\ driverio_ip = None /\ test_sock = "none" /\ target = None /\ result = "none"
    /\ response = "none" /\ sent = None /\ e = "none"
    /\ pin = [p \in Pins |-> 0]
    /\ pinMode = [p \in Pins |-> "in"]
    /\ pinLog = <<>>
    /\ nFailed = 0

\* ------------------------------------------------------------- startup
\* parse_wifi_config(), lines 98-113: the last SSID= and PASSWORD= lines of
\* the file, <<None, None>> when it cannot be opened.
RECURSIVE WifiLines(_, _)
WifiLines(found, lines) ==
    IF lines = <<>> THEN found
    ELSE LET line == Strip(Head(lines))
         IN  WifiLines(IF StartsWith(line, SSID_EQ)
                       THEN <<Some(SubSeq(line, 6, Len(line))), found[2]>>
                       ELSE IF StartsWith(line, PASSWORD_EQ)
                       THEN <<found[1], Some(SubSeq(line, 10, Len(line)))>>
                       ELSE found,
                       Tail(lines))

parse_wifi_config(f) == IF f.exists THEN WifiLines(<<None, None>>, f.lines) ELSE <<None, None>>

\* not x, for an optional text
Falsy(x) == x = None \/ x = Some(<<>>)

\* A variant of CredsMissing: both must be missing for main to give up.
CredsBothMissing(s, p) == Falsy(s) /\ Falsy(p)

\* main(), line 546: not ssid or not password
CredsMissing(s, p) == Falsy(s) \/ Falsy(p)

\* main(), lines 544-551: the credentials are read; without them main returns.
MainCreds ==
    /\ pc = "main"
    /\ \E f \in WifiFiles :
          LET c == parse_wifi_config(f)
          IN  /\ ssid' = c[1]
              /\ password' = c[2]
              /\ pc' = IF CredsMissing(c[1], c[2]) THEN "returned" ELSE "connect_wifi"
    /\ UNCHANGED <<server_socket, wlan_connected, waited, ip_address, boot_file, client,
                   open_clients, file, conn, probe, response, sent, e, gpio, nFailed>>

\* time.time() - start_time after n sleeps of half a second, in whole seconds
Elapsed(n) == n \div SLEEPS_PER_SECOND

\* connect_wifi(), lines 128-138: an interface already connected gives its
\* address at once; otherwise connect is issued and the wait begins.
ConnectWifi ==
    /\ pc = "connect_wifi"
    /\ IF wlan_connected
       THEN ip_address' = Some(OwnIp) /\ pc' = "start_server"
       ELSE ip_address' = ip_address /\ pc' = "wifi_wait"
    /\ waited' = 0
    /\ UNCHANGED <<server_socket, ssid, password, wlan_connected, boot_file, client,
                   open_clients, file, conn, probe, response, sent, e, gpio, nFailed>>

\* A variant of WifiPoll: the loop has no timeout branch.
WifiPollNoTimeout ==
    /\ pc = "wifi_wait"
    /\ IF wlan_connected
       THEN ip_address' = Some(OwnIp) /\ pc' = "start_server" /\ waited' = 0
       ELSE /\ ip_address' = ip_address /\ pc' = pc
            /\ waited' = IF Elapsed(waited) > WIFI_TIMEOUT THEN waited ELSE waited + 1
    /\ UNCHANGED <<server_socket, ssid, password, wlan_connected, boot_file, client,
                   open_clients, file, conn, probe, response, sent, e, gpio, nFailed>>

\* connect_wifi(), lines 139-148, and main(), lines 556-558: one test of the
\* loop condition; the loop ends with the address, ends with None once more
\* than timeout seconds have passed, or sleeps half a second.
WifiPoll ==
    /\ pc = "wifi_wait"
    /\ IF wlan_connected
       THEN ip_address' = Some(OwnIp) /\ pc' = "start_server" /\ waited' = 0
       ELSE IF Elapsed(waited) > WIFI_TIMEOUT
       THEN ip_address' = None /\ pc' = "returned" /\ waited' = 0
       ELSE ip_address' = ip_address /\ pc' = pc /\ waited' = waited + 1
    /\ UNCHANGED <<server_socket, ssid, password, wlan_connected, boot_file, client,
                   open_clients, file, conn, probe, response, sent, e, gpio, nFailed>>

\* The access point answers the connect that was issued.
WlanJoins ==
    /\ pc = "wifi_wait"
    /\ ~wlan_connected
    /\ wlan_connected' = TRUE
    /\ UNCHANGED <<pc, server_socket, ssid, password, waited, ip_address, boot_file, client,
                   open_clients, file, conn, probe, response, sent, e, gpio, nFailed>>

\* start_server(), lines 466-469: bind or listen raising ends main.
StartServer ==
    /\ pc = "start_server"
    /\ \E ok \in BOOLEAN :
          /\ server_socket' = IF ok THEN "listening" ELSE "created"
          /\ pc' = IF ok THEN "accept" ELSE "returned"
    /\ UNCHANGED <<startup, boot_file, client, open_clients, file, conn, probe, response,
                   sent, e, gpio, nFailed>>

\* --------------------------------------------------------- accept loop
\* The condition under which the thread is at server_socket.accept().
AtAcceptWhilePulsing == pc \in {"accept", "boot_sleep", "reboot_sleep"}

AtAccept == pc = "accept"

\* line 476: accept returns a connection or raises.
Accept ==
    /\ AtAccept
    /\ \E ok \in BOOLEAN :
          /\ client' = IF ok THEN "open" ELSE client
          /\ open_clients' = IF ok THEN open_clients + 1 ELSE open_clients
          /\ pc' = IF ok THEN "recv" ELSE "except"
          /\ e' = IF ok THEN "none" ELSE "accept"
    /\ raw' = None /\ request' = None /\ passcode' = None
    /\ route' = "none" /\ gate' = "none" /\ correct_passcode' = None
    /\ driverio_ip' = None /\ test_sock' = "none" /\ target' = None /\ result' = "none"
    /\ response' = "none" /\ sent' = None
    /\ pinLog' = <<>>
    /\ UNCHANGED <<server_socket, startup, boot_file, file, pin, pinMode, nFailed>>

\* line 479: recv raises, or returns bytes that decode or do not.
Recv ==
    /\ pc = "recv"
    /\ \/ /\ e' = "recv" /\ pc' = "except"
          /\ UNCHANGED <<raw, request>>
       \/ \E b \in Requests :
             /\ raw' = Some(b)
             /\ LET d == Utf8Decode(b)
                IN  IF d[1]
                    THEN request' = Some(d[2]) /\ pc' = "parse" /\ e' = e
                    ELSE request' = None /\ pc' = "except" /\ e' = "decode"
    /\ UNCHANGED <<server_socket, startup, boot_file, client, open_clients, file, passcode, route, gate, correct_passcode,
                   probe, response, sent, gpio, nFailed>>


\* A variant of ConfigFile: the configuration is the one found at startup.
ConfigAtStartup == boot_file

\* line 65: open(filename) gives the file as it is when the call is made
ConfigFile == file

\* A variant of Parse: once a privileged request has been let through, the
\* gate stays open for the requests that follow.
ParseWithSession ==
    /\ pc = "parse"
    /\ UNCHANGED <<server_socket, startup, boot_file, client, open_clients, file, raw, request, probe, sent, e, gpio, nFailed>>
    /\ \E request_line \in {RequestLine(request[1])} :
       \E r \in {Route(request_line)}, p \in {ExtractPasscode(request_line)} :
           /\ passcode' = p
           /\ route' = r
           /\ IF r = "dashboard"
              THEN /\ response' = get_html_page
                   /\ pc' = "send"
                   /\ UNCHANGED <<gate, correct_passcode>>
              ELSE \E granted \in {verify_passcode(p, ConfigFile) \/ (\E q \in Pins : pinMode[q] = "out")} :
                   /\ correct_passcode' = Some(GetOr(read_driverio_config(ConfigFile).passcode, <<>>))
                   /\ gate' = IF granted THEN "granted" ELSE "denied"
                   /\ IF granted
                      THEN pc' = "handle_" \o r /\ response' = response
                      ELSE pc' = "send" /\ response' = get_response_page("unauthorized")

\* lines 482-516 up to the call of the handler: the request line is taken, the
\* passcode extracted, the route chosen and, on a privileged route, the gate
\* asked.  A page is chosen here when no handler runs.
Parse ==
    /\ pc = "parse"
    /\ UNCHANGED <<server_socket, startup, boot_file, client, open_clients, file, raw, request, probe, sent, e, gpio, nFailed>>
    /\ \E request_line \in {RequestLine(request[1])} :
       \E r \in {Route(request_line)}, p \in {ExtractPasscode(request_line)} :
           /\ passcode' = p
           /\ route' = r
           /\ IF r = "dashboard"
              THEN /\ response' = get_html_page
                   /\ pc' = "send"
                   /\ UNCHANGED <<gate, correct_passcode>>
              ELSE \E granted \in {verify_passcode(p, ConfigFile)} :
                   /\ correct_passcode' = Some(GetOr(read_driverio_config(ConfigFile).passcode, <<>>))
                   /\ gate' = IF granted THEN "granted" ELSE "denied"
                   /\ IF granted
                      THEN pc' = "handle_" \o r /\ response' = response
                      ELSE pc' = "send" /\ response' = get_response_page("unauthorized")

\* ---------------------------------------------------------------- pulses
\* A variant of PinHigh: the line is asserted and the handler returns at once,
\* leaving the release to a timer.
PinHighNoWait(id, next) ==
    /\ pinMode' = [pinMode EXCEPT ![id] = "out"]
    /\ pin' = [pin EXCEPT ![id] = 1]
    /\ pinLog' = Append(pinLog, <<id, 1>>)
    /\ response' = get_response_page(IF id = BOOT_PIN THEN "boot" ELSE "reboot")
    /\ pc' = "send"
    /\ UNCHANGED <<server_socket, startup, boot_file, client, open_clients, file, conn, probe, sent, e, nFailed>>

\* Pin(id, Pin.OUT); value(1)
PinHigh(id, next) ==
    /\ pinMode' = [pinMode EXCEPT ![id] = "out"]
    /\ pin' = [pin EXCEPT ![id] = 1]
    /\ pinLog' = Append(pinLog, <<id, 1>>)
    /\ pc' = next
    /\ UNCHANGED <<server_socket, startup, boot_file, client, open_clients, file, conn, probe, response, sent, e, nFailed>>

\* The mutant of PinLow: the handler returns without de-asserting the line.
PinLeftHigh(id, action) ==
    /\ response' = get_response_page(action)
    /\ pc' = "send"
    /\ UNCHANGED <<server_socket, startup, boot_file, client, open_clients, file, conn, probe, sent, e, gpio, nFailed>>

\* value(0), and the page chosen once the handler has returned
PinLow(id, action) ==
    /\ pin' = [pin EXCEPT ![id] = 0]
    /\ pinLog' = Append(pinLog, <<id, 0>>)
    /\ response' = get_response_page(action)
    /\ pc' = "send"
    /\ UNCHANGED <<server_socket, startup, boot_file, client, open_clients, file, conn, probe, sent, e, pinMode, nFailed>>

\* handle_boot(), lines 392-393
BootHigh == pc = "handle_boot" /\ PinHigh(BOOT_PIN, "boot_sleep")

\* handle_boot(), lines 394-395, and line 498
BootLow == pc = "boot_sleep" /\ PinLow(BOOT_PIN, "boot")

\* The mutant of RebootHigh: the handler asserts the other line.
RebootHighWrongPin == pc = "handle_reboot" /\ PinHigh(BOOT_PIN, "reboot_sleep")

\* handle_reboot(), lines 407-408
RebootHigh == pc = "handle_reboot" /\ PinHigh(RUN_PIN, "reboot_sleep")

\* handle_reboot(), lines 409-410, and line 505
RebootLow == pc = "reboot_sleep" /\ PinLow(RUN_PIN, "reboot")

\* ----------------------------------------------------------------- probe
\* The mutant of StatusPage: an exception of the probe counts as reachable.
StatusPageRaisedOnline(res) ==
    get_response_page(IF res \in {"ok", "raised"} THEN "status" ELSE "status_offline")

\* lines 444-455 and 512: the page for the probe's outcome
StatusPage(res) ==
    get_response_page(IF res = "ok" THEN "status" ELSE "status_offline")

\* A variant of StatusConfig: the socket is made before the address is looked
\* for.
StatusConfigSocketFirst ==
    /\ pc = "handle_status"
    /\ test_sock' = "open"
    /\ \E ip \in {GetOr(read_driverio_config(ConfigFile).ip, <<>>)} :
           IF ip = <<>>
           THEN /\ response' = StatusPage("none")
                /\ pc' = "send"
                /\ UNCHANGED driverio_ip
           ELSE /\ driverio_ip' = Some(ip)
                /\ pc' = "probe_connect"
                /\ UNCHANGED response
    /\ UNCHANGED <<server_socket, startup, boot_file, client, open_clients, file, conn, target, result, sent, e,
                   gpio, nFailed>>

\* handle_status(), lines 424-430: without an address the check is over.
StatusConfig ==
    /\ pc = "handle_status"
    /\ UNCHANGED <<server_socket, startup, boot_file, client, open_clients, file, conn, test_sock, target, result, sent, e,
                   gpio, nFailed>>
    /\ \E ip \in {GetOr(read_driverio_config(ConfigFile).ip, <<>>)} :
           IF ip = <<>>
           THEN /\ response' = StatusPage("none")
                /\ pc' = "send"
                /\ UNCHANGED driverio_ip
           ELSE /\ driverio_ip' = Some(ip)
                /\ pc' = "probe_socket"
                /\ UNCHANGED response

\* lines 439-440: the socket is made, or making it raises.
ProbeSocket ==
    /\ pc = "probe_socket"
    /\ \/ /\ test_sock' = "open"
          /\ pc' = "probe_connect"
          /\ UNCHANGED <<result, response>>
       \/ /\ result' = "raised"
          /\ response' = StatusPage("raised")
          /\ pc' = "send"
          /\ UNCHANGED test_sock
    /\ UNCHANGED <<server_socket, startup, boot_file, client, open_clients, file, conn, driverio_ip, target, sent, e, gpio,
                   nFailed>>

\* lines 441-455: connect_ex returns 0, returns an error number (refused,
\* timed out), or raises; the socket is closed only when it returned.
ProbeConnect ==
    /\ pc = "probe_connect"
    /\ target' = Some(<<driverio_ip[1], SSH_PORT>>)
    /\ \E res \in {"ok", "refused", "raised"} :
          /\ result' = res
          /\ test_sock' = IF res = "raised" THEN test_sock ELSE "closed"
          /\ response' = StatusPage(res)
    /\ pc' = "send"
    /\ UNCHANGED <<server_socket, startup, boot_file, client, open_clients, file, conn, driverio_ip, sent, e, gpio, nFailed>>

\* -------------------------------------------------------------- response
\* lines 521-522: the response is written, or sendall raises.
Send ==
    /\ pc = "send"
    /\ \/ sent' = Some(HttpResponse(response)) /\ pc' = "close" /\ e' = e
       \/ sent' = sent /\ pc' = "except" /\ e' = "send"
    /\ UNCHANGED <<server_socket, startup, boot_file, client, open_clients, file, conn, probe, response, gpio, nFailed>>

\* line 523
Close ==
    /\ pc = "close"
    /\ client' = "closed"
    /\ open_clients' = open_clients - 1
    /\ pc' = "accept"
    /\ nFailed' = 0
    /\ UNCHANGED <<server_socket, startup, boot_file, file, conn, probe, response, sent, e, gpio>>

Min(a, b) == IF a <= b THEN a ELSE b

\* The mutant of Except: the handler gives up and the loop ends.
ExceptLeavesLoop ==
    /\ pc = "except"
    /\ client' = IF client = "unbound" THEN client ELSE "closed"
    /\ open_clients' = IF client = "open" THEN open_clients - 1 ELSE open_clients
    /\ pc' = "returned"
    /\ nFailed' = Min(nFailed + 1, MaxFailures)
    /\ UNCHANGED <<server_socket, startup, boot_file, file, conn, probe, response, sent, e, gpio>>

\* A variant of Except: the handler does not close the connection.
ExceptNoClose ==
    /\ pc = "except"
    /\ pc' = "accept"
    /\ nFailed' = Min(nFailed + 1, MaxFailures)
    /\ UNCHANGED <<server_socket, startup, boot_file, client, open_clients, file, conn, probe,
                   response, sent, e, gpio>>

\* A variant of Except: the handler goes back to reading the request.
ExceptRetries ==
    /\ pc = "except"
    /\ pc' = "recv"
    /\ nFailed' = Min(nFailed + 1, MaxFailures)
    /\ UNCHANGED <<server_socket, startup, boot_file, client, open_clients, file, conn, probe,
                   response, sent, e, gpio>>

\* lines 525-531: the exception is printed, the connection closed if there is
\* one (an unbound client raises NameError, which the bare except swallows),
\* and the loop goes on.
Except ==
    /\ pc = "except"
    /\ client' = IF client = "unbound" THEN client ELSE "closed"
    /\ open_clients' = IF client = "open" THEN open_clients - 1 ELSE open_clients
    /\ pc' = "accept"
    /\ nFailed' = Min(nFailed + 1, MaxFailures)
    /\ UNCHANGED <<server_socket, startup, boot_file, file, conn, probe, response, sent, e, gpio>>

\* ----------------------------------------------------------- environment
\* The board-control file is rewritten on the flash.
EditConfig ==
    /\ \E f \in Files \ {file} : file' = f
    /\ UNCHANGED <<pc, server_socket, startup, boot_file, client, open_clients, conn, probe, response, sent, e, gpio, nFailed>>

Next ==
    \/ MainCreds \/ ConnectWifi \/ WifiPoll \/ WlanJoins \/ StartServer
    \/ Accept \/ Recv \/ Parse
    \/ BootHigh \/ BootLow \/ RebootHigh \/ RebootLow
    \/ StatusConfig \/ ProbeSocket \/ ProbeConnect
    \/ Send \/ Close \/ Except
    \/ EditConfig

Spec == Init /\ [][Next]_vars


\* ---------------------------------------------------------------- claims
Privileged == {"boot", "reboot", "status"}

\* The levels written since the accept are one high-then-low pulse of line id.
Pulsed(id) == pinLog = << <<id, 1>>, <<id, 0>> >>

AllLow == \A p \in Pins : pin[p] = 0

\* C1: a request to /boot, /reboot or /status is authorized if and only if the
\* supplied token equals the configured passcode exactly or no (or an empty)
\* passcode is configured; with no passcode configured a /boot request that
\* carries no passcode is authorized and the BOOT pin pulses.
C1_AuthorizedIffExactOrUnset ==
    /\ gate # "none" =>
          LET S == correct_passcode[1]
          IN  gate = "granted" <=> (S = <<>> \/ (passcode # None /\ passcode[1] = S))
    /\ (route = "boot" /\ passcode = None /\ correct_passcode = Some(<<>>)
        /\ response # "none") =>
          (gate = "granted" /\ Pulsed(BOOT_PIN))

C1_Witness ==
    /\ route = "boot" /\ passcode = None /\ correct_passcode = Some(<<>>)
    /\ gate = "granted" /\ Pulsed(BOOT_PIN) /\ sent # None

\* The request is for a privileged route, a non-empty passcode is configured and
\* the supplied token differs from it or is missing.
Denied ==
    /\ route \in Privileged
    /\ correct_passcode # None /\ correct_passcode[1] # <<>>
    /\ passcode # correct_passcode

\* C2: a request to /boot, /reboot or /status whose passcode check fails changes
\* neither pin, opens no reachability connection, and is answered with the
\* 'unauthorized' page.
C2_DeniedTouchesNothing ==
    Denied =>
        /\ pinLog = <<>> /\ AllLow
        /\ test_sock = "none" /\ target = None /\ result = "none"
        /\ response = "Invalid Passcode"
        /\ sent # None => sent[1].body = "Invalid Passcode"

C2_Witness == Denied /\ route = "reboot" /\ passcode = None /\ sent # None

\* C3: an authorized /boot request drives pin 8 through exactly one
\* low-high-low transition, leaves pin 9 alone and yields the 'boot' page; an
\* authorized /reboot request does the same with pin 9, pin 8 and 'reboot'.
C3_OnePulseOnOwnPin ==
    /\ route = "boot" =>
          /\ \A i \in 1..Len(pinLog) : pinLog[i][1] = BOOT_PIN
          /\ pin[RUN_PIN] = 0
          /\ (gate = "granted" /\ response # "none") =>
                (Pulsed(BOOT_PIN) /\ AllLow
                 /\ response = "Force Bootloader Recovery Mode")
    /\ route = "reboot" =>
          /\ \A i \in 1..Len(pinLog) : pinLog[i][1] = RUN_PIN
          /\ pin[BOOT_PIN] = 0
          /\ (gate = "granted" /\ response # "none") =>
                (Pulsed(RUN_PIN) /\ AllLow /\ response = "Hardware Reset (RUN)")

C3_Witness ==
    /\ route = "reboot" /\ gate = "granted" /\ Pulsed(RUN_PIN)
    /\ passcode = correct_passcode /\ correct_passcode[1] # <<>>
    /\ sent # None /\ sent[1].body = "Hardware Reset (RUN)"

\* C4: an authorized /status request is answered 'online' if and only if the
\* connection attempt to (configured ip, 22) succeeded, and 'offline' when it
\* failed, timed out, raised or no address is configured; no /status request
\* changes a pin.
C4_OnlineIffConnected ==
    /\ route = "status" => (pinLog = <<>> /\ AllLow)
    /\ (route = "status" /\ gate = "granted" /\ response # "none") =>
          /\ response = "Status Check - Driver IO is ONLINE" <=> result = "ok"
          /\ result # "ok" => response = "Status Check - Driver IO is OFFLINE"
          /\ result = "ok" => (driverio_ip = Some(IpA) /\ target = Some(<<IpA, SSH_PORT>>))
          /\ driverio_ip = None => (result = "none" /\ target = None)

C4_Witness ==
    /\ route = "status" /\ gate = "granted" /\ result = "ok"
    /\ sent # None /\ sent[1].body = "Status Check - Driver IO is ONLINE"


\* The path the received bytes name: the second word of their first line.
PathOfBytes(b) == PathToken(Split(b, CRLF)[1])

\* C5: a request whose path is not /boot, /reboot or /status, malformed bytes
\* included, yields the Dashboard page, changes no pin, opens no reachability
\* connection and never consults the gate.
C5_OtherPathsGetDashboard ==
    (raw # None /\ PathClass(PathOfBytes(raw[1])) = "dashboard") =>
        /\ pinLog = <<>> /\ AllLow
        /\ test_sock = "none" /\ target = None
        /\ gate = "none"
        /\ pc # "parse" => response = "Dashboard"

\* C6: whenever the listener waits in accept, pin 8 and pin 9 are low.
C6_IdlePinsLow == pc = "accept" => AllLow

C6_Witness ==
    /\ pc = "accept" /\ Pulsed(BOOT_PIN)
    /\ e = "send" /\ nFailed >= 2 /\ pinMode[RUN_PIN] = "out"

AnyHigh == \E p \in Pins : pin[p] = 1

\* C7: at most one of pin 8 and pin 9 is high at any time, and from the moment
\* a pin is driven high until it is driven low again no connection is accepted
\* and no request is read or dispatched.
C7_PulsesSerialized ==
    /\ [](/\ ~(pin[BOOT_PIN] = 1 /\ pin[RUN_PIN] = 1)
          /\ AnyHigh => pc \in {"boot_sleep", "reboot_sleep"})
    /\ [][AnyHigh => /\ client' = client /\ raw' = raw
                     /\ request' = request /\ route' = route
                     /\ pc' = "send"]_<<pc, client, conn, gpio>>

C7_Witness ==
    /\ pin[RUN_PIN] = 1 /\ pin[BOOT_PIN] = 0 /\ pc = "reboot_sleep"
    /\ pinMode[BOOT_PIN] = "out"

\* C8: once the server socket listens, no failure of accept, read, decode,
\* handling or write, however many in a row, ends the accept loop or closes
\* the listening socket.
C8_LoopSurvivesFailures ==
    /\ [](server_socket = "listening" => pc \notin {"returned", "main", "connect_wifi", "wifi_wait", "start_server"})
    /\ [][server_socket = "listening" => server_socket' = "listening"]_vars

C8_Witness ==
    /\ nFailed = MaxFailures /\ e = "decode" /\ pc = "accept"
    /\ server_socket = "listening"

\* The received bytes do not parse as a request line with a path: they are
\* not text, or their first line has no second word.
ParseFailure(b) == ~Utf8Valid(b) \/ Len(Words(Split(b, CRLF)[1])) < 2

\* C9: every parse failure of the request bytes is answered with the Dashboard
\* page: once the iteration is over, and the write itself did not fail, the
\* page has been sent and no exception was caught.
C9_ParseFailureGetsDashboard ==
    (raw # None /\ ParseFailure(raw[1]) /\ pc = "accept" /\ e # "send") =>
        (e = "none" /\ sent # None /\ sent[1].body = "Dashboard")

\* The request line with its verb replaced by GET
WithGet(line) ==
    LET i == Find(line, SP)
    IN  IF i = 0 THEN line ELSE <<"G", "E", "T">> \o SubSeq(line, i, Len(line))

\* C10 as stated: whatever the verb, the request is routed as the same line
\* with the verb GET is.
C10_RouteIgnoresVerb ==
    route # "none" => route = Route(WithGet(RequestLine(request[1])))

\* C10 as amended: a request is routed to Boot, Reboot or Status only when its
\* verb is exactly GET and its path starts with /boot, /reboot or /status; with
\* any other verb the same path is routed to the Dashboard.
C10_RouteNeedsGet ==
    route # "none" =>
        LET line == RequestLine(request[1])
        IN  IF Words(line)[1] = <<"G", "E", "T">>
            THEN route = PathClass(PathToken(line))
            ELSE route = "dashboard"

C10_Witness ==
    /\ route = "dashboard" /\ request # None
    /\ Words(RequestLine(request[1]))[1] = <<"P", "O", "S", "T">>
    /\ PathClass(PathToken(RequestLine(request[1]))) = "boot"
    /\ sent # None /\ sent[1].body = "Dashboard" /\ pinLog = <<>>

\* The query mapping of a request target: the text after '?' split on '&',
\* each part split on '='; the value of key, None when the key is absent.
RECURSIVE QueryLookup(_, _)
QueryLookup(pairs, key) ==
    IF pairs = <<>> THEN None
    ELSE LET kv == SplitOnce(Head(pairs), EQ)
         IN  IF kv[1] = key /\ Len(kv) = 2 THEN Some(kv[2])
             ELSE QueryLookup(Tail(pairs), key)

QueryParam(uri, key) ==
    LET pq == SplitOnce(uri, <<"?">>)
    IN  IF Len(pq) < 2 THEN None ELSE QueryLookup(Split(pq[2], <<"&">>), key)

\* C11: the supplied token is the value of the passcode key of the query
\* mapping, so a request whose query holds passcode=<configured secret> is
\* authorized wherever the parameter stands in the query.
C11_TokenIsQueryParameter ==
    route \in Privileged =>
        LET supplied == QueryParam(PathToken(RequestLine(request[1])),
                                   SubSeq(QPASSCODE, 2, Len(QPASSCODE) - 1))
        IN  /\ passcode = supplied
            /\ (correct_passcode[1] # <<>> /\ supplied = correct_passcode)
                  => gate = "granted"

\* The lines of a response head, and the status code of its first line
HeadLines(head) == Split(head, CRLF)
StatusCode(head) == PathToken(HeadLines(head)[1])

\* C12: every response written, whatever the route and outcome, begins with
\* status 200 and carries the headers Content-Type: text/html and
\* Connection: close, followed by the blank line; no other status is produced.
C12_AlwaysStatus200 ==
    sent # None =>
        LET lines == HeadLines(sent[1].head)
        IN  /\ StatusCode(sent[1].head) = <<"2", "0", "0">>
            /\ Words(lines[1])[1] = <<"H", "T", "T", "P", "/", "1", ".", "1">>
            /\ Len(lines) = 5
            /\ lines[2] = <<"C", "o", "n", "t", "e", "n", "t", "-", "T", "y", "p", "e", ":",
                            " ", "t", "e", "x", "t", "/", "h", "t", "m", "l">>
            /\ lines[3] = <<"C", "o", "n", "n", "e", "c", "t", "i", "o", "n", ":", " ",
                            "c", "l", "o", "s", "e">>
            /\ lines[4] = <<>> /\ lines[5] = <<>>

C12_Witness ==
    /\ sent # None /\ sent[1].body = "Invalid Passcode"
    /\ route = "status" /\ gate = "denied" /\ client = "closed"

\* The positions of the accept loop and of the handlers it calls.
StartupPcs == {"main", "connect_wifi", "wifi_wait", "start_server", "returned"}

\* Some connection was accepted, some pin touched or some request served.
Served ==
    \/ client # "unbound" \/ open_clients # 0
    \/ raw # None \/ route # "none" \/ sent # None
    \/ pinLog # <<>> \/ ~AllLow \/ \E p \in Pins : pinMode[p] = "out"
    \/ test_sock # "none"

\* C13: when the credentials are missing (SSID or password absent or empty),
\* the association fails or times out, or the bind fails, main returns without
\* ever accepting a connection, touching a pin or serving a request.
C13_StartupFailuresAreFatal ==
    /\ pc = "returned" => (~Served /\ server_socket # "listening")
    /\ (Falsy(ssid) \/ Falsy(password) \/ ip_address = None
        \/ server_socket # "listening") => (~Served /\ pc \in StartupPcs)
    /\ pc \notin StartupPcs => wlan_connected

C13_Witness ==
    /\ pc = "returned" /\ ~Falsy(ssid) /\ ~Falsy(password)
    /\ ip_address = None /\ ~wlan_connected /\ server_socket = "none"

\* The passcode and the address a board-control file configures, '' when absent
PasscodeOf(f) == GetOr(read_driverio_config(f).passcode, <<>>)
IpOf(f) == GetOr(read_driverio_config(f).ip, <<>>)

\* C14 as stated: the passcode and the address that decide a request are the
\* ones the file held at startup, whatever was written to it since.
C14_ConfigFixedAtStartup ==
    /\ gate # "none" =>
          /\ correct_passcode = Some(PasscodeOf(boot_file))
          /\ gate = "granted" <=> verify_passcode(passcode, boot_file)
    /\ driverio_ip # None => driverio_ip = Some(IpOf(boot_file))

\* C14 as amended: the file is read again by every privileged request; the
\* gate uses the passcode the file holds when verify_passcode runs and the
\* probe the address it holds when handle_status runs.
C14_ConfigReadPerRequest ==
    [][/\ (pc = "parse" /\ gate' # "none") =>
             /\ correct_passcode' = Some(PasscodeOf(file))
             /\ gate' = "granted" <=>
                   (PasscodeOf(file) = <<>> \/ passcode' = Some(PasscodeOf(file)))
       /\ (pc = "handle_status" /\ pc' # pc) =>
             driverio_ip' = IF IpOf(file) = <<>> THEN None ELSE Some(IpOf(file))]_vars

C14_Witness ==
    /\ file # boot_file /\ PasscodeOf(boot_file) # <<>>
    /\ route = "boot" /\ gate = "granted" /\ Pulsed(BOOT_PIN)
    /\ passcode # None /\ passcode # Some(PasscodeOf(boot_file))
    /\ passcode = correct_passcode

\* ---------------------------------------------------------------- liveness
\* The steps of one iteration after accept returned: each is a call that
\* returns or raises, so the thread does not stay before it forever.
Handle ==
    \/ Recv \/ Parse
    \/ BootHigh \/ BootLow \/ RebootHigh \/ RebootLow
    \/ StatusConfig \/ ProbeSocket \/ ProbeConnect
    \/ Send \/ Close \/ Except

FairSpec == Spec /\ WF_vars(Handle)

\* The listener is handling a connection.
Handling == pc \notin StartupPcs /\ pc # "accept"

\* C15: whenever the listener is handling a connection it eventually waits in
\* accept again, whether the response was written or a step failed, provided
\* every blocking call returns or raises.
C15_HandlingReturnsToIdle == Handling ~> pc = "accept"

C15_Witness ==
    /\ pc = "accept" /\ e = "recv" /\ client = "closed" /\ raw = None
    /\ nFailed >= 1 /\ server_socket = "listening"

\* ------------------------------------------------------------ connections
\* C16: at most one client connection is open at any time, and none while the
\* listener waits in accept: the connection of an iteration is closed, after
\* the response or by the exception handler, before the next accept.
C16_OneClientAtATime ==
    /\ open_clients <= 1
    /\ open_clients = 1 <=> client = "open"
    /\ pc = "accept" => open_clients = 0

C16_Witness ==
    /\ pc = "accept" /\ e = "send" /\ nFailed >= 1 /\ response # "none"
    /\ client = "closed" /\ open_clients = 0

\* The response of the request at hand has been written, or its connection
\* closed.
ResponseOut == sent # None \/ (client = "closed" /\ route # "none")

\* C17: once a byte of the response to a granted privileged request is sent, or
\* its connection closed, the side effect is over: the pin of /boot or /reboot
\* went high and is low again, and the probe of /status has resolved.
C17_ResponseAfterSideEffect ==
    (gate = "granted" /\ ResponseOut) =>
        /\ route = "boot" => (Pulsed(BOOT_PIN) /\ AllLow)
        /\ route = "reboot" => (Pulsed(RUN_PIN) /\ AllLow)
        /\ route = "status" => (driverio_ip = None \/ result # "none")

C17_Witness ==
    /\ route = "boot" /\ gate = "granted" /\ Pulsed(BOOT_PIN) /\ AllLow
    /\ pc = "close" /\ sent # None /\ client = "open"

\* ------------------------------------------------------------------ probe
\* handle_status has returned to the listener for the request at hand.
StatusReturned == route = "status" /\ gate = "granted" /\ response # "none"

\* C18: when handle_status has returned no probe socket is open, and a probe
\* that raised has been answered with the offline page without the listener's
\* exception handler being entered for it.
C18_ProbeSocketClosed ==
    StatusReturned =>
        /\ test_sock # "open"
        /\ result = "raised" => response = StatusPage("raised")

\* C19: the gate of /status is decided before the configuration is looked at.
\* A denied request is answered 'unauthorized' with no address read and no
\* socket made, whatever the file holds; a granted one that finds no address
\* is answered 'offline' with no socket made and no connect attempted.
C19_GateBeforeConfig ==
    (route = "status" /\ response # "none") =>
        /\ gate = "denied" =>
              /\ response = get_response_page("unauthorized")
              /\ driverio_ip = None /\ test_sock = "none" /\ target = None
        /\ (gate = "granted" /\ driverio_ip = None) =>
              /\ response = get_response_page("status_offline")
              /\ test_sock = "none" /\ target = None /\ result = "none"

C19_Witness ==
    /\ route = "status" /\ gate = "denied" /\ IpOf(file) = <<>>
    /\ sent # None /\ sent[1].body = "Invalid Passcode"
    /\ test_sock = "none"

\* ---------------------------------------------------------------- routing
\* The prefixes the chain of lines 494-508 tests, each with its route.
RouteLiterals ==
    { <<GET_BOOT, "boot">>, <<GET_REBOOT, "reboot">>, <<GET_STATUS, "status">> }

\* The routes whose prefix a request line starts with.
Matching(line) == {l[2] : l \in {k \in RouteLiterals : StartsWith(line, k[1])}}

C21_GateIsStateless ==
    [][(pc = "parse" /\ route' \in Privileged) =>
          gate' = IF \/ PasscodeOf(file) = <<>>
                     \/ passcode' = Some(PasscodeOf(file))
                  THEN "granted" ELSE "denied"]_vars

\* A request without a token is denied although an earlier one was let through
\* and pulsed the boot line.
C21_Witness ==
    /\ route = "boot" /\ gate = "denied" /\ passcode = None
    /\ pinMode[BOOT_PIN] = "out" /\ pinLog = <<>>
    /\ sent # None /\ sent[1].body = "Invalid Passcode"

\* ------------------------------------------------------------ missing file
\* The line a granted route pulses.
PinOf(r) == IF r = "boot" THEN BOOT_PIN ELSE RUN_PIN

WifiFairSpec == Spec /\ WF_vars(ConnectWifi \/ WifiPoll)

\* The thread is inside connect_wifi.
InConnectWifi == pc \in {"connect_wifi", "wifi_wait"}

\* C23: connect_wifi always returns.  Connected at the call, it returns the
\* address at once and issues no connect; otherwise it waits, and leaves the
\* wait with the address only when the interface reports connected, with None
\* only when more than the timeout has passed and the interface still is not
\* connected; an address is never returned while the interface is not
\* connected.
C23_ConnectWifiTerminates ==
    /\ InConnectWifi ~> ~InConnectWifi
    /\ [][/\ (pc = "connect_wifi" /\ pc' # pc /\ wlan_connected) =>
                (pc' = "start_server" /\ ip_address' = Some(OwnIp))
          /\ (pc = "connect_wifi" /\ pc' # pc /\ ~wlan_connected) =>
                (pc' = "wifi_wait" /\ ip_address' = None)
          /\ (pc = "wifi_wait" /\ pc' = "returned") =>
                (~wlan_connected /\ Elapsed(waited) > WIFI_TIMEOUT /\ ip_address' = None)
          /\ (pc = "wifi_wait" /\ pc' = pc /\ waited' # waited) =>
                (~wlan_connected /\ Elapsed(waited) <= WIFI_TIMEOUT)
          /\ (InConnectWifi /\ ip_address' # None) =>
                (wlan_connected /\ pc' = "start_server")]_vars

\* connect_wifi has returned the address after the interface was connected.
C23_Witness ==
    /\ pc = "start_server" /\ ip_address = Some(OwnIp) /\ wlan_connected
    /\ ssid = Some(NetName) /\ server_socket = "none" /\ waited = 0

====
